---- MODULE Spec2Model ----
(***************************************************************************)
(* A model of wgan/model.py: the WGAN LightningModule (Generator,          *)
(* Discriminator, training_step, configure_optimizers, on_epoch_end) and   *)
(* the entry point that drives it with Trainer(max_epochs = 20).           *)
(*                                                                         *)
(* Numbers.  Learning rates are in units of 0.0001, b1 in units of 0.1,    *)
(* b2 in units of 0.001.  Network parameters are fixed-point numbers in    *)
(* units of 0.005, so clip_value = 0.01 is 2 units.  One Adam update moves *)
(* a parameter by at most lr*(1-b1)/sqrt(1-b2) < 0.005, i.e. by at most    *)
(* one unit; its direction depends on the gradient, which is taken over    *)
(* all outcomes.  Each network is represented by one element of the weight *)
(* and one of the bias of a Linear layer: the critic by its first layer,   *)
(* Linear(784, 512), the generator by its last, Linear(1024, 784).         *)
(* Tensors are represented by their shapes; the critic's scores are small  *)
(* integers and losses are exact rationals <<numerator, denominator>>.     *)
(***************************************************************************)
EXTENDS Integers, Sequences, FiniteSets, TLC

VARIABLES
    cmdline,          \* the flags given on the command line: flag -> value
    hparams,          \* the Namespace parse_args returns
    model,            \* the WGAN object's fields (NoModel before construction)
    gen_params,       \* self.generator.parameters()
    disc_params,      \* self.discriminator.parameters()
    optimizers,       \* what configure_optimizers returned (<< >> before fit)
    pc,               \* where main is: "main", "trainer", "fit", "loader",
                      \* "step", "update", "epoch_end", "done", "error"
    current_epoch,    \* trainer.current_epoch
    batch_idx,        \* index of the batch within the epoch
    total_batch_idx,  \* batches processed since fit started
    optimizer_idx,    \* optimizer_idx of the latest training_step call
    eval_disc,        \* critic parameters the pending step's loss was computed with
    logged,           \* logger.experiment.add_image calls, in order
    opt_log,          \* optimizer_idx of every training_step call, in order
    raised_in,        \* the call whose exception ended the run, "none" so far
    net,              \* a stand-alone forward pass through the two networks
    lossrun           \* a stand-alone evaluation of training_step's loss

vars == <<cmdline, hparams, model, gen_params, disc_params, optimizers, pc,
          current_epoch, batch_idx, total_batch_idx, optimizer_idx, eval_disc,
          logged, opt_log, raised_in, net, lossrun>>

trainVars == <<cmdline, hparams, model, gen_params, disc_params, optimizers, pc,
               current_epoch, batch_idx, total_batch_idx, optimizer_idx,
               eval_disc, logged, opt_log, raised_in>>

(***************************************************************************)
(* Bounds of the model.                                                    *)
(***************************************************************************)
\* number of images in the training set (MNIST has 60000)
DatasetSize == 4
\* generator parameters are followed within [-GenCap, GenCap]: a run
\* starts with them in that window and an update does not take them out
GenCap == 1
\* largest batch of the stand-alone forward and loss evaluations
MaxBatch == 3

(***************************************************************************)
(* Program constants.                                                      *)
(***************************************************************************)
ParserDefaultGpus == 0
ParserDefaultBatchSize == 64
ParserDefaultLr == 2
ParserDefaultB1 == 5
ParserDefaultB2 == 999
ParserDefaultLatentDim == 100
CtorDefaultLatentDim == 100
CtorDefaultLr == 3
CtorDefaultB1 == 5
CtorDefaultB2 == 999
CtorDefaultBatchSize == 64
ClipValue == 2
DiscInitBound == 7
GenInitBound == 6
n_critic == 5
NumValidationZ == 8
NumSampleImgs == 6

Min(a, b) == IF a < b THEN a ELSE b
Max(a, b) == IF a < b THEN b ELSE a

RECURSIVE Prod(_)
Prod(s) == IF s = << >> THEN 1 ELSE Head(s) * Prod(Tail(s))

RECURSIVE Sum(_)
Sum(s) == IF s = << >> THEN 0 ELSE Head(s) + Sum(Tail(s))

(***************************************************************************)
(* Tensor shapes.  A forward pass yields a shape, or fails with an         *)
(* exception.                                                              *)
(***************************************************************************)
Ok(shape) == [ok |-> TRUE, shape |-> shape]
Raised == [ok |-> FALSE, shape |-> << >>]

\* nn.Linear(in_feat, out_feat): the last dimension must be in_feat
Linear(in_feat, out_feat, r) ==
    IF r.ok /\ Len(r.shape) >= 1 /\ r.shape[Len(r.shape)] = in_feat
    THEN Ok([r.shape EXCEPT ![Len(r.shape)] = out_feat])
    ELSE Raised

\* nn.BatchNorm1d(out_feat, 0.8) on an (n, out_feat) input: in training
\* mode it needs more than one value per channel
BatchNorm1d(out_feat, training, r) ==
    IF r.ok /\ Len(r.shape) = 2 /\ r.shape[2] = out_feat
            /\ ~(training /\ r.shape[1] = 1)
    THEN r
    ELSE Raised

\* nn.LeakyReLU(0.2, inplace = True) and nn.Tanh() keep the shape
LeakyReLU(r) == r
Tanh(r) == r

\* block(in_feat, out_feat, normalize)
Block(in_feat, out_feat, normalize, training, r) ==
    LeakyReLU(IF normalize
              THEN BatchNorm1d(out_feat, training, Linear(in_feat, out_feat, r))
              ELSE Linear(in_feat, out_feat, r))

\* tensor.view(shape): the number of elements must be kept
View(shape, r) ==
    IF r.ok /\ Prod(r.shape) = Prod(shape) THEN Ok(shape) ELSE Raised

\* mnist_shape = (1, 28, 28)
ImgShapeNoChannel == <<28, 28>>
ImgShape == <<1, 28, 28>>

\* Generator.forward(z) of Generator(latent_dim, img_shape)
GeneratorForward(latent_dim, img_shape, training, z) ==
    LET img == Tanh(Linear(1024, Prod(img_shape),
                   Block(512, 1024, TRUE, training,
                   Block(128, 512, TRUE, training,
                   Block(latent_dim, 128, FALSE, training, Ok(z))))))
    IN  IF img.ok THEN View(<<img.shape[1]>> \o img_shape, img) ELSE Raised

\* Discriminator.forward(img) of Discriminator(img_shape)
DiscriminatorForward(img_shape, r) ==
    IF r.ok /\ Len(r.shape) >= 1 /\ r.shape[1] > 0
    THEN LET img_flat == Ok(<<r.shape[1], Prod(r.shape) \div r.shape[1]>>)
         IN  Linear(256, 1,
             LeakyReLU(Linear(512, 256,
             LeakyReLU(Linear(Prod(img_shape), 512, img_flat)))))
    ELSE Raised

(***************************************************************************)
(* The command line and the WGAN constructor.                              *)
(***************************************************************************)
Flags == {"gpus", "batch_size", "lr", "b1", "b2", "latent_dim"}

\* parser.add_argument(..., default = ...)
ParserDefaults ==
    [gpus |-> ParserDefaultGpus, batch_size |-> ParserDefaultBatchSize,
     lr |-> ParserDefaultLr, b1 |-> ParserDefaultB1, b2 |-> ParserDefaultB2,
     latent_dim |-> ParserDefaultLatentDim]

\* parser.parse_args(): a flag's value when given, else its default
parse_args(argv) ==
    [f \in Flags |-> IF f \in DOMAIN argv THEN argv[f] ELSE ParserDefaults[f]]

\* a keyword argument of WGAN.__init__, or the default of its signature
Kwarg(kwargs, name, default) ==
    IF name \in DOMAIN kwargs THEN kwargs[name] ELSE default

\* WGAN.__init__ that does not take lr from its arguments
WGAN_initFixedLr(kwargs, z_seed) ==
    [latent_dim |-> Kwarg(kwargs, "latent_dim", CtorDefaultLatentDim),
     lr |-> CtorDefaultLr,
     b1 |-> Kwarg(kwargs, "b1", CtorDefaultB1),
     b2 |-> Kwarg(kwargs, "b2", CtorDefaultB2),
     batch_size |-> Kwarg(kwargs, "batch_size", CtorDefaultBatchSize),
     img_shape |-> ImgShape,
     validation_z |-> [shape |-> <<NumValidationZ,
                                   Kwarg(kwargs, "latent_dim", CtorDefaultLatentDim)>>,
                       seed |-> z_seed],
     generated_imgs |-> Raised]

\* WGAN.__init__(**kwargs); z_seed stands for the values torch.randn drew
WGAN_init(kwargs, z_seed) ==
    [latent_dim |-> Kwarg(kwargs, "latent_dim", CtorDefaultLatentDim),
     lr |-> Kwarg(kwargs, "lr", CtorDefaultLr),
     b1 |-> Kwarg(kwargs, "b1", CtorDefaultB1),
     b2 |-> Kwarg(kwargs, "b2", CtorDefaultB2),
     batch_size |-> Kwarg(kwargs, "batch_size", CtorDefaultBatchSize),
     img_shape |-> ImgShape,
     validation_z |-> [shape |-> <<NumValidationZ,
                                   Kwarg(kwargs, "latent_dim", CtorDefaultLatentDim)>>,
                       seed |-> z_seed],
     generated_imgs |-> Raised]

\* the module before WGAN(**vars(hparams)) has returned
NoModel ==
    [latent_dim |-> 0, lr |-> 0, b1 |-> 0, b2 |-> 0, batch_size |-> 0,
     img_shape |-> << >>, validation_z |-> [shape |-> << >>, seed |-> 0],
     generated_imgs |-> Raised]

\* Constructing a layer or a tensor with a negative dimension raises:
\* Generator(latent_dim, img_shape) builds nn.Linear(latent_dim, 128), and
\* torch.randn(8, latent_dim) follows it.
WGAN_initRaises(kwargs) == Kwarg(kwargs, "latent_dim", CtorDefaultLatentDim) < 0

\* WGAN.forward(z): the generator, in training mode while fit runs
Forward(m, training, z) ==
    GeneratorForward(m.latent_dim, m.img_shape, training, z)

(***************************************************************************)
(* configure_optimizers and the trainer's choice of optimizer.             *)
(***************************************************************************)
\* torch.optim.Adam(params, lr = lr, betas = (b1, b2))
Adam(params, lr, b1, b2) == [params |-> params, lr |-> lr, betas |-> <<b1, b2>>]

\* Adam rejects a negative learning rate and a beta outside [0, 1)
\* (b1 = 1.0 is 10 units, b2 = 1.0 is 1000 units)
AdamRaises(lr, b1, b2) ==
    lr < 0 \/ b1 < 0 \/ b1 >= 10 \/ b2 < 0 \/ b2 >= 1000

\* opt_g built on the critic's parameters
OptGParamsOfCritic == "discriminator"
\* the networks whose parameters opt_g and opt_d are built on
OptGParams == "generator"
OptDParams == "discriminator"

\* frequencies in the order swapped
OptimizerFrequenciesSwapped == <<n_critic, 1>>
\* the 'frequency' entries of the returned dictionaries
OptimizerFrequencies == <<1, n_critic>>

\* WGAN.configure_optimizers()
configure_optimizers(m) ==
    << [optimizer |-> Adam(OptGParams, m.lr, m.b1, m.b2),
        frequency |-> OptimizerFrequencies[1]],
       [optimizer |-> Adam(OptDParams, m.lr, m.b1, m.b2),
        frequency |-> OptimizerFrequencies[2]] >>

\* The trainer's use of 'frequency': the position of the batch in a loop of
\* sum(frequencies) batches selects the first optimizer whose cumulated
\* frequency exceeds it.  The result is the 0-based optimizer_idx.
OptimizerIdxFor(opts, total) ==
    LET place == total % (opts[1].frequency + opts[2].frequency)
    IN  IF place < opts[1].frequency THEN 0 ELSE 1

(***************************************************************************)
(* train_dataloader: DataLoader(dataset, batch_size = self.batch_size).    *)
(***************************************************************************)
\* DataLoader rejects a batch size that is not positive
DataLoaderRaises(batch_size) == batch_size <= 0
NumBatches(m) == (DatasetSize + m.batch_size - 1) \div m.batch_size
\* imgs.shape[0] of batch i (0-based); the last batch may be smaller
BatchLen(m, i) == Min(m.batch_size, DatasetSize - i * m.batch_size)

(***************************************************************************)
(* Network parameters, weight clipping and the optimizer update.           *)
(***************************************************************************)
GenParamNames == {"weight", "bias"}
DiscParamNames == {"weight", "bias"}

\* nn.Linear's initial values lie within 1/sqrt(in_features) of zero:
\* 1/sqrt(784) = 0.0357, 7 units
DiscInitValues == {-DiscInitBound, 0, DiscInitBound}
\* nn.Linear(1024, 784): 1/sqrt(1024) = 0.03125, 6 units; of these initial
\* values the ones in the window the generator is followed in
GenInitValues ==
    {v \in -GenInitBound..GenInitBound : -GenCap <= v /\ v <= GenCap}
\* what one Adam update adds to a parameter
AdamDeltas == {-1, 0, 1}

\* placeholders for the time before the networks exist
ZeroGen == [p \in GenParamNames |-> 0]
ZeroDisc == [p \in DiscParamNames |-> 0]
NoEval == [valid |-> FALSE, params |-> ZeroDisc]

\* p.data.clamp_(-clip_value, clip_value)
Clamp(x) == Max(-ClipValue, Min(ClipValue, x))
\* for p in self.discriminator.parameters(): p.data.clamp_(...)
ClampAll(params) == [p \in DOMAIN params |-> Clamp(params[p])]

InClip(params) ==
    \A p \in DOMAIN params : -ClipValue <= params[p] /\ params[p] <= ClipValue

(***************************************************************************)
(* The stand-alone evaluations are idle during a training run.             *)
(***************************************************************************)
NetIdle == [pc |-> "idle", n |-> 0, latent_dim |-> 0, training |-> FALSE,
            layout |-> << >>, img |-> Raised, score |-> Raised]
LossIdle == [pc |-> "idle", optimizer_idx |-> 0, imgs |-> << >>,
             d_real |-> << >>, d_gen |-> << >>, z |-> << >>,
             d_fake |-> << >>, loss |-> <<0, 1>>]

(***************************************************************************)
(* The training run: main(hparams).                                        *)
(***************************************************************************)
\* The values tried for each flag.  Besides values the run accepts there
\* are values it rejects: batch_size 0 (DataLoader), lr -0.0001, b1 1.0 and
\* b2 1.0 (Adam), latent_dim -1 (nn.Linear), and gpus 1, which the Trainer
\* rejects on a host without a GPU.  batch_size 1 makes every batch a
\* batch of one image, batch_size DatasetSize - 1 the last batch only.
FlagValues == [gpus |-> {1}, batch_size |-> {0, 1, 2, DatasetSize - 1},
               lr |-> {-1, 3}, b1 |-> {9, 10}, b2 |-> {900, 1000},
               latent_dim |-> {-1, 2}]
\* the command lines that give exactly the flags in S
Args(S) ==
    { a \in [S -> UNION {FlagValues[f] : f \in S}] :
        \A f \in S : a[f] \in FlagValues[f] }
\* the optimizer's flags are given not at all, one at a time, or all three
OptimizerFlagSets == {{}, {"lr"}, {"b1"}, {"b2"}, {"lr", "b1", "b2"}}
\* each of these with and without --batch_size; gpus and latent_dim each
\* alone
Cmdlines ==
    UNION { Args(S \cup B) : S \in OptimizerFlagSets,
                             B \in SUBSET {"batch_size"} }
        \cup Args({"gpus"}) \cup Args({"latent_dim"})
\* what torch.randn(8, latent_dim) drew at construction, as one symbolic
\* value; the noise a training step draws is another one (seed 0)
Seeds == {1}

\* the state when main(hparams) is called with the parsed command line
Init ==
    /\ cmdline \in Cmdlines
    /\ hparams = parse_args(cmdline)
    /\ model = NoModel
    /\ gen_params = ZeroGen
    /\ disc_params = ZeroDisc
    /\ optimizers = << >>
    /\ pc = "main"
    /\ current_epoch = 0
    /\ batch_idx = 0
    /\ total_batch_idx = 0
    /\ optimizer_idx = 0
    /\ eval_disc = NoEval
    /\ logged = << >>
    /\ opt_log = << >>
    /\ raised_in = "none"
    /\ net = NetIdle
    /\ lossrun = LossIdle

\* model = WGAN(**vars(hparams)): the constructor raises, or the module
\* exists with the generator and the critic freshly initialised and its
\* validation_z drawn
Construct ==
    /\ pc = "main"
    /\ IF WGAN_initRaises(hparams)
       THEN /\ pc' = "error"
            /\ raised_in' = "WGAN.__init__"
            /\ UNCHANGED <<model, gen_params, disc_params>>
       ELSE /\ \E s \in Seeds : model' = WGAN_init(hparams, s)
            /\ gen_params' \in [GenParamNames -> GenInitValues]
            /\ disc_params' \in [DiscParamNames -> DiscInitValues]
            /\ pc' = "trainer"
            /\ UNCHANGED raised_in
    /\ UNCHANGED <<cmdline, hparams, optimizers, current_epoch,
                   batch_idx, total_batch_idx, optimizer_idx, eval_disc,
                   logged, opt_log, net, lossrun>>

\* whether the host has the GPUs asked for is not decided by the program
TrainerOutcomes(gpus) == IF gpus = 0 THEN {"ok"} ELSE {"ok", "raise"}

\* trainer = pl.Trainer(max_epochs = 20, gpus = hparams.gpus)
CreateTrainer ==
    /\ pc = "trainer"
    /\ \E outcome \in TrainerOutcomes(hparams.gpus) :
          IF outcome = "raise"
          THEN pc' = "error" /\ raised_in' = "Trainer"
          ELSE pc' = "fit" /\ UNCHANGED raised_in
    /\ UNCHANGED <<cmdline, hparams, model, gen_params, disc_params,
                   optimizers, current_epoch, batch_idx, total_batch_idx,
                   optimizer_idx, eval_disc, logged, opt_log, net, lossrun>>

\* trainer.fit(model) asks the model for its optimizers
ConfigureOptimizers ==
    /\ pc = "fit"
    /\ IF AdamRaises(model.lr, model.b1, model.b2)
       THEN /\ pc' = "error"
            /\ raised_in' = "configure_optimizers"
            /\ UNCHANGED optimizers
       ELSE /\ optimizers' = configure_optimizers(model)
            /\ pc' = "loader"
            /\ UNCHANGED raised_in
    /\ UNCHANGED <<cmdline, hparams, model, gen_params, disc_params,
                   current_epoch, batch_idx, total_batch_idx, optimizer_idx,
                   eval_disc, logged, opt_log, net, lossrun>>

\* trainer.fit(model) asks the model for its training batches
TrainDataloader ==
    /\ pc = "loader"
    /\ IF DataLoaderRaises(model.batch_size)
       THEN pc' = "error" /\ raised_in' = "train_dataloader"
       ELSE pc' = "step" /\ UNCHANGED raised_in
    /\ UNCHANGED <<cmdline, hparams, model, gen_params, disc_params,
                   optimizers, current_epoch, batch_idx, total_batch_idx,
                   optimizer_idx, eval_disc, logged, opt_log, net, lossrun>>

\* z = torch.randn(imgs.shape[0], self.latent_dim)
NoiseShape(m, imgs_n) == <<imgs_n, m.latent_dim>>

\* the step 'generated images' is logged under in training_step
TrainStepTag == 0
\* on_epoch_end that logs under a fixed step
EpochEndTagFixed(epoch) == TrainStepTag
\* the step 'generated_images' is logged under in on_epoch_end
EpochEndTag(epoch) == epoch

\* What WGAN.training_step(batch, batch_idx, idx) does to the module, the
\* critic and the logger for a batch of n images.  Both branches run the
\* generator on z, which raises before anything is changed; the generator
\* branch keeps and logs the generated images, the critic branch clamps
\* after its loss is computed.
training_step(idx, n) ==
    LET z == NoiseShape(model, n)
        imgs == Forward(model, TRUE, z)
    IN  IF ~imgs.ok
        THEN UNCHANGED <<model, disc_params, eval_disc, logged>>
        ELSE /\ eval_disc' = [valid |-> TRUE, params |-> disc_params]
             /\ IF idx = 0
                THEN /\ model' = [model EXCEPT !.generated_imgs = imgs]
                     /\ logged' = Append(logged,
                           [tag |-> "generated images",
                            global_step |-> TrainStepTag,
                            rows |-> Min(NumSampleImgs, n),
                            latents |-> [shape |-> z, seed |-> 0]])
                     /\ UNCHANGED disc_params
                ELSE /\ disc_params' = ClampAll(disc_params)
                     /\ UNCHANGED <<model, logged>>

\* training_step raises when the generator cannot process the noise batch
StepRaises(n) == ~Forward(model, TRUE, NoiseShape(model, n)).ok

\* The trainer calls training_step for the batch it is at, with the
\* optimizer it selected for that batch.
TrainingStep ==
    /\ pc = "step"
    /\ LET idx == OptimizerIdxFor(optimizers, total_batch_idx)
           n == BatchLen(model, batch_idx)
       IN  /\ optimizer_idx' = idx
           /\ opt_log' = Append(opt_log, idx)
           /\ pc' = IF StepRaises(n) THEN "error" ELSE "update"
           /\ raised_in' = IF StepRaises(n) THEN "training_step" ELSE raised_in
           /\ training_step(idx, n)
    /\ UNCHANGED <<cmdline, hparams, gen_params, optimizers, current_epoch,
                   batch_idx, total_batch_idx, net, lossrun>>

\* the parameters optimizer.step() may produce: each one moved by one Adam
\* update (generator parameters are followed within the cap only)
Stepped(params, cap) ==
    { q \in [DOMAIN params -> -cap..cap] :
        \A p \in DOMAIN params : q[p] - params[p] \in AdamDeltas }

\* backward and optimizer.step() of the selected optimizer, then the
\* trainer moves to the next batch or to the end of the epoch
OptimizerStep ==
    /\ pc = "update"
    /\ LET target == optimizers[optimizer_idx + 1].optimizer.params
       IN  /\ IF target = "generator"
              THEN /\ gen_params' \in Stepped(gen_params, GenCap)
                   /\ UNCHANGED disc_params
              ELSE /\ disc_params' \in Stepped(disc_params, DiscInitBound + 1)
                   /\ UNCHANGED gen_params
    /\ eval_disc' = NoEval
    /\ total_batch_idx' = total_batch_idx + 1
    /\ IF batch_idx + 1 < NumBatches(model)
       THEN /\ batch_idx' = batch_idx + 1
            /\ pc' = "step"
       ELSE /\ batch_idx' = batch_idx
            /\ pc' = "epoch_end"
    /\ UNCHANGED <<cmdline, hparams, model, optimizers, current_epoch,
                   optimizer_idx, logged, opt_log, raised_in, net, lossrun>>

\* Trainer(max_epochs = 20)
MaxEpochsOneLess == 20 - 1
MaxEpochs == 20

\* WGAN.on_epoch_end(), then the trainer starts the next epoch or returns
OnEpochEnd ==
    /\ pc = "epoch_end"
    /\ LET z == model.validation_z
           sample_imgs == Forward(model, TRUE, z.shape)
       IN  IF ~sample_imgs.ok
           THEN /\ pc' = "error"
                /\ raised_in' = "on_epoch_end"
                /\ UNCHANGED <<logged, current_epoch, batch_idx>>
           ELSE /\ UNCHANGED raised_in
                /\ logged' = Append(logged,
                      [tag |-> "generated_images",
                       global_step |-> EpochEndTag(current_epoch),
                       rows |-> sample_imgs.shape[1],
                       latents |-> z])
                /\ IF current_epoch + 1 < MaxEpochs
                   THEN /\ current_epoch' = current_epoch + 1
                        /\ batch_idx' = 0
                        /\ pc' = "step"
                   ELSE /\ pc' = "done"
                        /\ UNCHANGED <<current_epoch, batch_idx>>
    /\ UNCHANGED <<cmdline, hparams, model, gen_params, disc_params,
                   optimizers, total_batch_idx, optimizer_idx, eval_disc,
                   opt_log, net, lossrun>>

Next ==
    \/ Construct
    \/ CreateTrainer
    \/ ConfigureOptimizers
    \/ TrainDataloader
    \/ TrainingStep
    \/ OptimizerStep
    \/ OnEpochEnd

Spec == Init /\ [][Next]_vars

(***************************************************************************)
(* A stand-alone forward pass: the generator on n latent vectors, the      *)
(* critic on its output, and the critic on n images given directly.        *)
(***************************************************************************)
LatentDims == {1, 2, ParserDefaultLatentDim}
\* tensors of n images with 784 elements each
ImageLayouts(n) == {<<n, 1, 28, 28>>, <<n, 28, 28>>, <<n, 784>>}

InitNet ==
    /\ cmdline = << >>
    /\ hparams = parse_args(cmdline)
    /\ model = WGAN_init(hparams, 1)
    /\ gen_params \in [GenParamNames -> GenInitValues]
    /\ disc_params \in [DiscParamNames -> DiscInitValues]
    /\ optimizers = << >>
    /\ pc = "idle"
    /\ current_epoch = 0
    /\ batch_idx = 0
    /\ total_batch_idx = 0
    /\ optimizer_idx = 0
    /\ eval_disc = NoEval
    /\ logged = << >>
    /\ opt_log = << >>
    /\ raised_in = "none"
    /\ lossrun = LossIdle
    /\ \E n \in 1..MaxBatch, d \in LatentDims, t \in BOOLEAN :
         \E l \in ImageLayouts(n) :
            net = [pc |-> "input", n |-> n, latent_dim |-> d, training |-> t,
                   layout |-> l, img |-> Raised, score |-> Raised]

\* img = Generator(latent_dim, mnist_shape)(z) for z of shape (n, latent_dim)
NetGenerate ==
    /\ net.pc = "input"
    /\ LET img == GeneratorForward(net.latent_dim, ImgShape, net.training,
                                   <<net.n, net.latent_dim>>)
       IN  net' = [net EXCEPT !.pc = IF img.ok THEN "generated" ELSE "raised",
                              !.img = img]
    /\ UNCHANGED <<trainVars, lossrun>>

\* validity = Discriminator(mnist_shape)(img) for the generated img
NetScoreGenerated ==
    /\ net.pc = "generated"
    /\ net' = [net EXCEPT !.pc = "scored",
                          !.score = DiscriminatorForward(ImgShape, net.img)]
    /\ UNCHANGED <<trainVars, lossrun>>

\* validity = Discriminator(mnist_shape)(img) for n images given directly
NetScoreImages ==
    /\ net.pc = "input"
    /\ net' = [net EXCEPT !.pc = "scored_images", !.img = Ok(net.layout),
                          !.score = DiscriminatorForward(ImgShape, Ok(net.layout))]
    /\ UNCHANGED <<trainVars, lossrun>>

NextNet == NetGenerate \/ NetScoreGenerated \/ NetScoreImages

SpecNet == InitNet /\ [][NextNet]_vars

(***************************************************************************)
(* The losses of training_step, on exact rationals <<num, den>>, den > 0.  *)
(* A tensor of scores is a sequence of rationals, one per image.           *)
(***************************************************************************)
Scalar(x) == <<x, 1>>
RAdd(a, b) == <<a[1] * b[2] + b[1] * a[2], a[2] * b[2]>>
RNeg(a) == <<-a[1], a[2]>>
REq(a, b) == a[1] * b[2] = b[1] * a[2]

RECURSIVE RSum(_)
RSum(t) == IF t = << >> THEN Scalar(0) ELSE RAdd(Head(t), RSum(Tail(t)))

\* torch.mean(t)
TorchMean(t) == LET s == RSum(t) IN <<s[1], s[2] * Len(t)>>
\* t + r for a tensor t and a 0-dimensional tensor r (broadcast)
TorchAdd(t, r) == [i \in DOMAIN t |-> RAdd(t[i], r)]

\* the mean of the critic's scores on the generated images, not negated
G_LossNotNegated(d_fake) == TorchMean(d_fake)
\* g_loss = -torch.mean(self.discriminator(self(z)))
G_Loss(d_fake) == RNeg(TorchMean(d_fake))

\* d_loss = -torch.mean(self.discriminator(imgs)
\*                      + torch.mean(self.discriminator(self(z))))
D_Loss(d_real, d_fake) == RNeg(TorchMean(TorchAdd(d_real, TorchMean(d_fake))))

(***************************************************************************)
(* A stand-alone evaluation of training_step's loss: a batch of n images   *)
(* (n below batch_size for a final, smaller batch), the critic's score of  *)
(* each image, and its score of the image generated from each latent       *)
(* vector that may be drawn.                                               *)
(***************************************************************************)
ScoreValues == {-1, 1}
AsTensor(scores) == [i \in DOMAIN scores |-> Scalar(scores[i])]

InitLoss ==
    /\ \E bs \in 1..MaxBatch : cmdline = [f \in {"batch_size"} |-> bs]
    /\ hparams = parse_args(cmdline)
    /\ model = WGAN_init(hparams, 1)
    /\ gen_params \in [GenParamNames -> GenInitValues]
    /\ disc_params \in [DiscParamNames -> DiscInitValues]
    /\ optimizers = << >>
    /\ pc = "idle"
    /\ current_epoch = 0
    /\ batch_idx = 0
    /\ total_batch_idx = 0
    /\ optimizer_idx = 0
    /\ eval_disc = NoEval
    /\ logged = << >>
    /\ opt_log = << >>
    /\ raised_in = "none"
    /\ net = NetIdle
    /\ \E idx \in {0, 1}, n \in 1..model.batch_size :
         \E real \in [1..n -> ScoreValues], gen \in [1..MaxBatch -> ScoreValues] :
            lossrun = [pc |-> "input", optimizer_idx |-> idx,
                       imgs |-> <<n>> \o model.img_shape,
                       d_real |-> real, d_gen |-> gen,
                       z |-> << >>, d_fake |-> << >>, loss |-> Scalar(0)]

\* A call of training_step outside a run: its effect on the module, the
\* critic and the logger, and the 'loss' entry it returns.  The noise has
\* the shape line 95 gives it, the generator turns every latent vector into
\* one image and the critic scores every image.
TrainingStepLoss ==
    /\ lossrun.pc = "input"
    /\ training_step(lossrun.optimizer_idx, lossrun.imgs[1])
    /\ LET z == NoiseShape(model, lossrun.imgs[1])
           generated == Forward(model, TRUE, z)
           validity == DiscriminatorForward(model.img_shape, generated)
           d_fake == IF validity.ok
                     THEN [i \in 1..validity.shape[1] |-> lossrun.d_gen[i]]
                     ELSE << >>
       IN  lossrun' =
             IF ~validity.ok
             THEN [lossrun EXCEPT !.pc = "raised", !.z = z]
             ELSE [lossrun EXCEPT
                     !.pc = "returned", !.z = z, !.d_fake = d_fake,
                     !.loss = IF lossrun.optimizer_idx = 0
                              THEN G_Loss(AsTensor(d_fake))
                              ELSE D_Loss(AsTensor(lossrun.d_real),
                                          AsTensor(d_fake))]
    /\ UNCHANGED <<cmdline, hparams, gen_params, optimizers, pc,
                   current_epoch, batch_idx, total_batch_idx, optimizer_idx,
                   opt_log, raised_in, net>>

NextLoss == TrainingStepLoss

SpecLoss == InitLoss /\ [][NextLoss]_vars

(***************************************************************************)
(* Properties.                                                             *)
(***************************************************************************)
IsIdx(k) == k = 0 \/ k = 1
CountIn(s, from, to, v) == Cardinality({k \in from..to : s[k] = v})

\* C1: every batch is given to exactly one optimizer (0 = generator,
\* 1 = critic), and over the whole run, across epoch boundaries, the calls
\* repeat the cycle of 1 generator step followed by 5 critic steps: every
\* completed window of 6 batches aligned to the cycle holds exactly 1
\* generator step and 5 critic steps.
C1_AlternatingSchedule ==
    /\ Len(opt_log) = total_batch_idx
           + (IF pc = "update" \/ raised_in = "training_step" THEN 1 ELSE 0)
    /\ \A k \in 1..Len(opt_log) :
          /\ IsIdx(opt_log[k])
          /\ opt_log[k] = (IF (k - 1) % 6 = 0 THEN 0 ELSE 1)
    /\ \A w \in 0..((Len(opt_log) \div 6) - 1) :
          /\ CountIn(opt_log, 6 * w + 1, 6 * w + 6, 0) = 1
          /\ CountIn(opt_log, 6 * w + 1, 6 * w + 6, 1) = 5
          /\ opt_log[6 * w + 1] = 0

\* two full cycles have run, the second one started inside a later epoch
C1_Witness ==
    /\ pc = "step"
    /\ Len(opt_log) = 13
    /\ current_epoch >= 1
    /\ batch_idx >= 1

\* C2 (as claimed): once a critic step, training_step with optimizer_idx 1
\* followed by the optimizer's update, has completed, every critic
\* parameter lies in [-clip_value, clip_value].
C2_ClippedAfterCriticStep ==
    (pc \in {"step", "epoch_end", "done"} /\ total_batch_idx >= 1 /\ optimizer_idx = 1)
        => InClip(disc_params)

\* C3 (as claimed): the critic's loss is mean(score of the generated
\* images) - mean(score of the real images).
C3_WassersteinCriticLoss ==
    (lossrun.pc = "returned" /\ lossrun.optimizer_idx = 1)
        => REq(lossrun.loss,
               <<Sum(lossrun.d_fake) - Sum(lossrun.d_real), Len(lossrun.d_real)>>)

\* C4: the loss a generator step returns is minus the mean of the critic's
\* scores of the images generated from a noise batch with one latent vector
\* per image of the real batch, also for a final batch smaller than
\* batch_size; the scores of the real images do not occur in it.
C4_GeneratorLoss ==
    (lossrun.pc = "returned" /\ lossrun.optimizer_idx = 0)
        => LET n == lossrun.imgs[1]
           IN  /\ lossrun.z = <<n, model.latent_dim>>
               /\ Len(lossrun.d_fake) = n
               /\ REq(lossrun.loss,
                      <<-Sum(SubSeq(lossrun.d_gen, 1, n)), n>>)

\* a generator step on a final, smaller batch with a nonzero loss
C4_Witness ==
    /\ lossrun.pc = "returned"
    /\ lossrun.optimizer_idx = 0
    /\ lossrun.imgs[1] < model.batch_size
    /\ Sum(lossrun.d_real) > 0
    /\ lossrun.loss[1] < 0

\* C5 (as claimed): a run that has ended, whatever the hyperparameters,
\* ended after exactly 20 epochs over the training batches.
C5_TwentyEpochsAlways ==
    pc \in {"done", "error"}
        => /\ pc = "done"
           /\ current_epoch = 19
           /\ total_batch_idx = 20 * NumBatches(model)

\* the steps a run still has to take before main returns: four to set up,
\* then two per batch and one per epoch end, over 20 epochs
StepsLeft ==
    LET batches == IF hparams.batch_size > 0 THEN NumBatches(hparams) ELSE 0
        perEpoch == 2 * batches + 1
        inEpoch == IF pc = "step" THEN 2 * batch_idx
                   ELSE IF pc = "update" THEN 2 * batch_idx + 1
                   ELSE 2 * batches
    IN  IF pc = "main" THEN 20 * perEpoch + 4
        ELSE IF pc = "trainer" THEN 20 * perEpoch + 3
        ELSE IF pc = "fit" THEN 20 * perEpoch + 2
        ELSE IF pc = "loader" THEN 20 * perEpoch + 1
        ELSE IF pc \in {"done", "error"} THEN 0
        ELSE 20 * perEpoch - (current_epoch * perEpoch + inEpoch)

\* with the parsed batch size some training batch holds a single image
SomeBatchOfOne ==
    /\ hparams.batch_size > 0
    /\ \E i \in 0..(NumBatches(hparams) - 1) : BatchLen(hparams, i) = 1

\* lr, b1 or b2 outside what Adam takes: lr >= 0, 0 <= b1 < 1, 0 <= b2 < 1
BetasOrLrRejected ==
    \/ hparams.lr < 0
    \/ hparams.b1 \notin 0..9
    \/ hparams.b2 \notin 0..999

\* A run that returned has run 20 epochs over all batches without an
\* exception.  A run fails exactly by an exception, each exception has its
\* cause in the hyperparameters (for the Trainer: in GPUs being asked
\* for), and a setting with such a cause never gets past the call that
\* rejects it: the first step on a batch of one image is reached in the
\* first epoch and raises.
C5_EpochsRun ==
    /\ current_epoch < 20
    /\ pc = "done" => /\ current_epoch = 19
                      /\ total_batch_idx = 20 * NumBatches(hparams)
                      /\ Len(opt_log) = 20 * NumBatches(hparams)
                      /\ raised_in = "none"
    /\ pc = "error" <=> raised_in # "none"
    /\ raised_in = "WGAN.__init__" => hparams.latent_dim < 0
    /\ raised_in = "Trainer" => hparams.gpus > 0
    /\ raised_in = "configure_optimizers" => BetasOrLrRejected
    /\ raised_in = "train_dataloader" => hparams.batch_size <= 0
    /\ raised_in = "training_step" => /\ current_epoch = 0
                                      /\ total_batch_idx = batch_idx
                                      /\ BatchLen(hparams, batch_idx) = 1
    /\ raised_in # "on_epoch_end"
    /\ hparams.latent_dim < 0 => pc \in {"main", "error"}
    /\ BetasOrLrRejected => pc \in {"main", "trainer", "fit", "error"}
    /\ hparams.batch_size <= 0
          => pc \in {"main", "trainer", "fit", "loader", "error"}
    /\ SomeBatchOfOne
          => /\ pc \notin {"epoch_end", "done"}
             /\ current_epoch = 0
             /\ \A i \in 0..(batch_idx - 1) : BatchLen(hparams, i) > 1
             /\ pc = "update" => BatchLen(hparams, batch_idx) > 1

\* C5 (amended): the run performs exactly 20 epochs over the training
\* batches and then returns, whatever the updates did to the networks,
\* for every setting with latent_dim not negative, lr >= 0, b1 and b2 in
\* [0, 1), batch_size > 0 leaving no batch of a single image, and gpus 0
\* or GPUs the host has.  Every other setting ends the run early with an
\* exception: a negative latent_dim at construction, GPUs the host lacks
\* in the Trainer, a rejected lr, b1 or b2 in configure_optimizers, a
\* batch_size <= 0 in the data loader, and a batch of one image at the
\* first training step on it, in the first epoch.  Every step brings the
\* end of the run nearer.
C5_TwentyEpochs == []C5_EpochsRun /\ [][StepsLeft' < StepsLeft]_vars

\* a run with non-default hyperparameters has returned
C5_Witness ==
    /\ pc = "done"
    /\ hparams.batch_size = 2
    /\ hparams.lr = 3
    /\ total_batch_idx = 40
    /\ raised_in = "none"

IsEpochGrid(e) == e.tag = "generated_images"
EpochGrids == SelectSeq(logged, IsEpochGrid)

\* C6: one grid is logged per ended epoch under 'generated_images', made
\* from the 8 latent vectors of validation_z as drawn at construction, and
\* tagged with the index of the epoch that just ended, so that the tags of
\* the run are 0, 1, 2, ... and strictly increasing.
C6_EpochSamples ==
    LET g == EpochGrids
    IN  /\ Len(g) = current_epoch + (IF pc = "done" THEN 1 ELSE 0)
        /\ model # NoModel => model.validation_z.shape = <<8, model.latent_dim>>
        /\ \A i \in 1..Len(g) :
              /\ g[i].global_step = i - 1
              /\ g[i].rows = 8
              /\ g[i].latents = model.validation_z
        /\ \A i, j \in 1..Len(g) : i < j => g[i].global_step < g[j].global_step

\* three epochs have ended, and generator steps have logged their own grids
C6_Witness ==
    /\ Len(EpochGrids) = 3
    /\ Len(logged) > 3
    /\ EpochGrids[3].global_step = 2
    /\ gen_params["weight"] # 0

\* C7 (as claimed): for every n >= 1 the generator maps n latent vectors to
\* a tensor of shape (n, 1, 28, 28).
C7_GeneratorShapeAnyBatch ==
    net.pc \in {"generated", "raised", "scored"}
        => /\ net.img.ok
           /\ net.img.shape = <<net.n, 1, 28, 28>>

\* C7 (amended): for every n >= 2, and for n = 1 when the generator is in
\* evaluation mode, the generator maps n latent vectors of length
\* latent_dim to shape (n, 1, 28, 28); the critic maps that output, and any
\* tensor of n >= 1 images with 784 elements each, to shape (n, 1).  In
\* training mode the generator raises on a single latent vector.
C7_ShapesCompose ==
    /\ (net.pc \in {"generated", "raised", "scored"} /\ (net.n >= 2 \/ ~net.training))
          => /\ net.img.ok
             /\ net.img.shape = <<net.n, 1, 28, 28>>
    /\ net.pc = "raised" => (net.n = 1 /\ net.training)
    /\ net.pc \in {"scored", "scored_images"}
          => /\ net.score.ok
             /\ net.score.shape = <<net.n, 1>>

\* the critic has scored what the generator made of 3 latent vectors
C7_Witness ==
    /\ net.pc = "scored"
    /\ net.n = 3
    /\ net.training
    /\ net.latent_dim = 100
    /\ net.score.shape = <<3, 1>>

\* the optimizer a step at the current position belongs to
StepIdx == IF pc = "step" THEN OptimizerIdxFor(optimizers, total_batch_idx)
           ELSE optimizer_idx

\* C8: a generator step, training_step with optimizer_idx 0 and the update
\* of opt_g, leaves every critic parameter unchanged, and a critic step,
\* training_step with optimizer_idx 1, its clamp and the update of opt_d,
\* leaves every generator parameter unchanged.
C8_StepsOwnParameters ==
    [][ (pc \in {"step", "update"})
          => ( (StepIdx = 0 => disc_params' = disc_params)
               /\ (StepIdx = 1 => gen_params' = gen_params) ) ]_vars

\* the first generator step and the first critic step have completed: the
\* generator is at the edge of its window and the critic step has clamped
\* a critic parameter and moved it, each step leaving the other network
\* alone
C8_Witness ==
    /\ pc = "step"
    /\ total_batch_idx = 2
    /\ gen_params["weight"] = 1
    /\ disc_params["weight"] = 1
    /\ disc_params["bias"] = -3

\* C9 (as claimed): whenever a loss has been computed from the critic's
\* scores, from the first batch on, the critic parameters it was computed
\* with lie in [-clip_value, clip_value].
C9_LossUsesClippedCritic ==
    eval_disc.valid => InClip(eval_disc.params)

\* C10: both Adam optimizers are configured with the parsed learning rate
\* and the parsed (b1, b2); a flag that is given sets the value, and
\* without --lr the learning rate is the parser's default 0.0002, not the
\* constructor's 0.0003.
C10_ParsedHyperparameters ==
    /\ hparams.lr = (IF "lr" \in DOMAIN cmdline THEN cmdline["lr"] ELSE 2)
    /\ hparams.b1 = (IF "b1" \in DOMAIN cmdline THEN cmdline["b1"] ELSE 5)
    /\ hparams.b2 = (IF "b2" \in DOMAIN cmdline THEN cmdline["b2"] ELSE 999)
    /\ Len(optimizers) = 2
          => /\ \A i \in 1..2 :
                   /\ optimizers[i].optimizer.lr = hparams.lr
                   /\ optimizers[i].optimizer.betas = <<hparams.b1, hparams.b2>>
             /\ optimizers[1].optimizer.params = "generator"
             /\ optimizers[2].optimizer.params = "discriminator"

\* the optimizers of a run started without flags
C10_Witness ==
    /\ DOMAIN cmdline = {}
    /\ Len(optimizers) = 2
    /\ optimizers[1].optimizer.lr = 2
    /\ optimizers[2].optimizer.lr = 2
    /\ pc = "update"

====
